---- MODULE Spec2Model ----
(***************************************************************************)
(* The session hub of reqviem-backend: the socket.io connection handler    *)
(* with the token store and its snapshot file, the voice roster and the    *)
(* negotiation lock (src/unnamed/part_001, second revision, lines 335-497; *)
(* the token and voice handlers are those of src/server.js as well).       *)
(*                                                                         *)
(* Every handler runs to completion on node's single-threaded event loop,  *)
(* so each handler is one action.  An exception that escapes a handler is  *)
(* an uncaught exception of the process: the hub is down (hubUp = FALSE).  *)
(***************************************************************************)
EXTENDS Integers, Sequences, FiniteSets, TLC

\* ------------------------------------------------------------------ bounds
\* connections accepted in the lock specification
MaxConns == 3
\* connections accepted in the token-store specification
MaxTokConns == 1
\* connections accepted in the whole-hub specification
MaxHubConns == 2
\* connections accepted in the persistence specification
MaxPersistConns == 2
\* longest reorder payload, and the length addToken is followed up to
MaxLen == 2

\* ------------------------------------------------------------- JS values
\* negotiationOwner = null; socket ids are 1, 2, ... in order of connection
NULL == 0
Undefined == "undefined"

ConnIds == 1..(MaxConns + 1)

\* truthiness of a socket id or null, and of a string or undefined
TruthyId(v) == v # NULL
TruthyStr(v) == v # Undefined

\* ------------------------------------------------------------ JS arrays
\* Array.prototype.includes
Includes(arr, x) == \E i \in DOMAIN arr : arr[i] = x

\* Array.prototype.indexOf: 0-based index of the first occurrence, or -1
IndexOf(arr, x) ==
  IF Includes(arr, x)
  THEN (CHOOSE i \in DOMAIN arr : arr[i] = x /\ \A j \in 1..(i - 1) : arr[j] # x) - 1
  ELSE 0 - 1

\* Array.prototype.splice(idx, 1): removes the single element at 0-based idx
Splice1(arr, idx) ==
  [i \in 1..(Len(arr) - 1) |-> IF i <= idx THEN arr[i] ELSE arr[i + 1]]

\* ------------------------------------------------------------- variables
VARIABLES
  hubUp,              \* the node process is running
  nextId,             \* connections accepted so far: their ids are 1..nextId
  live,               \* io.sockets.sockets: the ids of the connected sockets
  tokens,             \* let tokens
  file,               \* tokens.json
  participants,       \* let participants, in key insertion order
  negotiationOwner,   \* let negotiationOwner
  negotiationQueue,   \* let negotiationQueue
  lastEv,             \* the event handled last and its payload
  lastSave,           \* what saveTokens did in the last handler
  sent                \* the events the last handler emitted, in order

vars == <<hubUp, nextId, live, tokens, file, participants, negotiationOwner,
          negotiationQueue, lastEv, lastSave, sent>>

lockVars == <<negotiationOwner, negotiationQueue>>

\* ------------------------------------------------- tokens and their file
\* a token payload: null, or an object whose id and src may be missing
NullToken == [kind |-> "null", id |-> Undefined, src |-> Undefined]
Tok(id, src) == [kind |-> "object", id |-> id, src |-> src]

\* what clients send as a token or as an element of a reorder array
TokenPayloads ==
  { NullToken, Tok(Undefined, "a"), Tok("t1", Undefined),
    Tok("t1", "a"), Tok("t1", "b"), Tok("t2", "a") }

TokenIds == {Undefined, "t1", "t2"}

\* arrays of at most n payloads
ArraysUpTo(n) == UNION { [1..k -> TokenPayloads] : k \in 0..n }

\* a reorder payload: an array, or something that is no array
NotAnArray == [isArray |-> FALSE, items |-> <<>>]
ArrayOf(items) == [isArray |-> TRUE, items |-> items]
ReorderPayloads == {NotAnArray} \cup {ArrayOf(a) : a \in ArraysUpTo(MaxLen)}

\* tokens.json: absent, unparseable, or the text of an array
NoFile == [state |-> "absent", text |-> <<>>]
CorruptFile == [state |-> "corrupt", text |-> <<>>]

\* JSON.stringify of one array element: a property whose value is undefined is
\* left out of the text, null is written as null
JsonStringifyItem(t) ==
  IF t.kind = "null" THEN <<"null">>
  ELSE <<"{">> \o (IF t.id = Undefined THEN <<>> ELSE <<"id", t.id>>)
              \o (IF t.src = Undefined THEN <<>> ELSE <<"src", t.src>>)
              \o <<"}">>

JsonStringify(data) == [i \in DOMAIN data |-> JsonStringifyItem(data[i])]

\* the value of property key in the text of one object, undefined when absent
JsonProperty(text, key) ==
  IF \E i \in 1..(Len(text) - 1) : text[i] = key
  THEN text[(CHOOSE i \in 1..(Len(text) - 1) : text[i] = key) + 1]
  ELSE Undefined

JsonParseItem(text) ==
  IF text = <<"null">> THEN NullToken
  ELSE Tok(JsonProperty(text, "id"), JsonProperty(text, "src"))

JsonParse(text) == [i \in DOMAIN text |-> JsonParseItem(text[i])]

\* tokens.json as the process may find it when it starts
StartFiles ==
  {NoFile, CorruptFile, [state |-> "ok", text |-> JsonStringify(<<Tok("t1", "a")>>)]}

\* function loadTokens: [] when the file is absent or unparseable
loadTokens(f) == IF f.state = "ok" THEN JsonParse(f.text) ELSE <<>>

\* function saveTokens(data): the file after the call; a failing write is caught
\* and leaves the file as it was
saveTokens(f, data, writeOk) ==
  IF writeOk THEN [state |-> "ok", text |-> JsonStringify(data)] ELSE f

SaveOutcome(writeOk) == IF writeOk THEN "written" ELSE "failed"

\* ------------------------------------------------------- emitted events
\* one emitted event: its name, the sockets it goes to, and its payload
Blank ==
  [ev |-> "", to |-> {}, tok |-> NullToken, arr |-> <<>>, id |-> Undefined,
   text |-> Undefined, who |-> NULL, newOwner |-> NULL, flag |-> FALSE,
   position |-> 0, roster |-> <<>>]

Emit(ev, to) == [Blank EXCEPT !.ev = ev, !.to = to]

\* the handled event: its name, the socket it came from, and its payload
BlankEv ==
  [name |-> "", from |-> NULL, tok |-> NullToken, arr |-> NotAnArray,
   id |-> Undefined, text |-> Undefined, target |-> NULL, present |-> TRUE,
   flag |-> FALSE]

Event(name, from) == [BlankEv EXCEPT !.name = name, !.from = from]

\* -------------------------------------------------------- negotiation lock
\* requestNegotiation without the includes() test: every request is pushed
requestNegotiation_AlwaysPush(owner, queue, socketId) ==
  IF ~TruthyId(owner)
  THEN [owner |-> socketId, queue |-> queue, granted |-> TRUE, position |-> 0]
  ELSE IF owner = socketId
  THEN [owner |-> owner, queue |-> queue, granted |-> TRUE, position |-> 0]
  ELSE LET q == Append(queue, socketId)
       IN [owner |-> owner, queue |-> q, granted |-> FALSE,
           position |-> IndexOf(q, socketId) + 1]

\* requestNegotiation reporting indexOf() without the + 1
requestNegotiation_ZeroBased(owner, queue, socketId) ==
  IF ~TruthyId(owner)
  THEN [owner |-> socketId, queue |-> queue, granted |-> TRUE, position |-> 0]
  ELSE IF owner = socketId
  THEN [owner |-> owner, queue |-> queue, granted |-> TRUE, position |-> 0]
  ELSE LET q == IF ~Includes(queue, socketId) THEN Append(queue, socketId) ELSE queue
       IN [owner |-> owner, queue |-> q, granted |-> FALSE,
           position |-> IndexOf(q, socketId)]

\* requestNegotiation without the test for an owner: the requester takes the lock
requestNegotiation_Steals(owner, queue, socketId) ==
  [owner |-> socketId, queue |-> queue, granted |-> TRUE, position |-> 0]

\* function requestNegotiation(socketId): the lock after the call and the result
requestNegotiation(owner, queue, socketId) ==
  IF ~TruthyId(owner)
  THEN [owner |-> socketId, queue |-> queue, granted |-> TRUE, position |-> 0]
  ELSE IF owner = socketId
  THEN [owner |-> owner, queue |-> queue, granted |-> TRUE, position |-> 0]
  ELSE LET q == IF ~Includes(queue, socketId) THEN Append(queue, socketId) ELSE queue
       IN [owner |-> owner, queue |-> q, granted |-> FALSE,
           position |-> IndexOf(q, socketId) + 1]

\* releaseNegotiation promoting with pop() instead of shift(): the last waiter
releaseNegotiation_Lifo(owner, queue, socketId, sockets) ==
  IF owner = socketId
  THEN IF queue # <<>>
       THEN [owner |-> queue[Len(queue)], queue |-> SubSeq(queue, 1, Len(queue) - 1),
             result |-> TRUE,
             emits |-> IF queue[Len(queue)] \in sockets
                       THEN << [Emit("voice-negotiate-grant", {queue[Len(queue)]})
                                  EXCEPT !.who = queue[Len(queue)]] >>
                       ELSE <<>>]
       ELSE [owner |-> NULL, queue |-> queue, result |-> TRUE, emits |-> <<>>]
  ELSE LET idx == IndexOf(queue, socketId)
       IN [owner |-> owner,
           queue |-> IF idx # 0 - 1 THEN Splice1(queue, idx) ELSE queue,
           result |-> FALSE, emits |-> <<>>]

\* releaseNegotiation without the else branch: a waiter stays queued
releaseNegotiation_KeepsQueued(owner, queue, socketId, sockets) ==
  IF owner = socketId
  THEN IF queue # <<>> /\ TruthyId(Head(queue))
       THEN [owner |-> Head(queue), queue |-> Tail(queue), result |-> TRUE,
             emits |-> IF Head(queue) \in sockets
                       THEN << [Emit("voice-negotiate-grant", {Head(queue)})
                                  EXCEPT !.who = Head(queue)] >>
                       ELSE <<>>]
       ELSE [owner |-> NULL, queue |-> IF queue = <<>> THEN queue ELSE Tail(queue),
             result |-> TRUE, emits |-> <<>>]
  ELSE [owner |-> owner, queue |-> queue, result |-> FALSE, emits |-> <<>>]

\* releaseNegotiation that clears the owner and promotes nobody
releaseNegotiation_NoPromote(owner, queue, socketId, sockets) ==
  IF owner = socketId
  THEN [owner |-> NULL, queue |-> queue, result |-> TRUE, emits |-> <<>>]
  ELSE LET idx == IndexOf(queue, socketId)
       IN [owner |-> owner,
           queue |-> IF idx # 0 - 1 THEN Splice1(queue, idx) ELSE queue,
           result |-> FALSE, emits |-> <<>>]

\* releaseNegotiation with the owner test never true: the owner's release is
\* handled as a waiter's
releaseNegotiation_NeverFrees(owner, queue, socketId, sockets) ==
  LET idx == IndexOf(queue, socketId)
  IN [owner |-> owner,
      queue |-> IF idx # 0 - 1 THEN Splice1(queue, idx) ELSE queue,
      result |-> FALSE, emits |-> <<>>]

\* releaseNegotiation promoting only when more than one waiter is queued
releaseNegotiation_OffByOne(owner, queue, socketId, sockets) ==
  IF owner = socketId
  THEN IF Len(queue) > 1
       THEN [owner |-> Head(queue), queue |-> Tail(queue), result |-> TRUE,
             emits |-> IF Head(queue) \in sockets
                       THEN << [Emit("voice-negotiate-grant", {Head(queue)})
                                  EXCEPT !.who = Head(queue)] >>
                       ELSE <<>>]
       ELSE [owner |-> NULL, queue |-> queue, result |-> TRUE, emits |-> <<>>]
  ELSE LET idx == IndexOf(queue, socketId)
       IN [owner |-> owner,
           queue |-> IF idx # 0 - 1 THEN Splice1(queue, idx) ELSE queue,
           result |-> FALSE, emits |-> <<>>]

\* function releaseNegotiation(socketId): the lock after the call, the result and
\* the grant it emits; sockets is io.sockets.sockets at the time of the call
releaseNegotiation(owner, queue, socketId, sockets) ==
  IF owner = socketId
  THEN IF queue # <<>> /\ TruthyId(Head(queue))
       THEN [owner |-> Head(queue), queue |-> Tail(queue), result |-> TRUE,
             emits |-> IF Head(queue) \in sockets
                       THEN << [Emit("voice-negotiate-grant", {Head(queue)})
                                  EXCEPT !.who = Head(queue)] >>
                       ELSE <<>>]
       ELSE [owner |-> NULL, queue |-> IF queue = <<>> THEN queue ELSE Tail(queue),
             result |-> TRUE, emits |-> <<>>]
  ELSE LET idx == IndexOf(queue, socketId)
       IN [owner |-> owner,
           queue |-> IF idx # 0 - 1 THEN Splice1(queue, idx) ELSE queue,
           result |-> FALSE, emits |-> <<>>]

\* ------------------------------------------------------------------ roster
Participant(id, nick) == [id |-> id, nick |-> nick, speaking |-> FALSE]

HasParticipant(ps, id) == \E i \in DOMAIN ps : ps[i].id = id

\* participants kept as a list that is pushed to on every voice-join
SetParticipant_AlwaysAppend(ps, p) == Append(ps, p)

\* participants[id] = p: a new key goes last, an existing key keeps its place
SetParticipant(ps, p) ==
  IF HasParticipant(ps, p.id)
  THEN [i \in DOMAIN ps |-> IF ps[i].id = p.id THEN p ELSE ps[i]]
  ELSE Append(ps, p)

\* delete participants[id]
DeleteParticipant(ps, id) == LET keep(p) == p.id # id IN SelectSeq(ps, keep)

\* ----------------------------------------------------------------- initial
\* the process has started: tokens = loadTokens(), nobody is connected yet
InitFrom(files) ==
  /\ hubUp = TRUE
  /\ nextId = 0
  /\ live = {}
  /\ file \in files
  /\ tokens = loadTokens(file)
  /\ participants = <<>>
  /\ negotiationOwner = NULL
  /\ negotiationQueue = <<>>
  /\ lastEv = Event("listen", NULL)
  /\ lastSave = "none"
  /\ sent = <<>>

Init == InitFrom(StartFiles)

\* an exception escapes the handler: nothing it did before is undone, nothing
\* more is emitted, the process ends
Throw(ev) ==
  /\ hubUp' = FALSE
  /\ lastEv' = ev
  /\ lastSave' = "none"
  /\ sent' = <<>>
  /\ UNCHANGED <<nextId, live, tokens, file, participants, negotiationOwner,
                 negotiationQueue>>

\* ------------------------------------------------------------- connections
\* the connection handler with io.emit in place of socket.emit
Connect_InitToAll(limit) ==
  /\ hubUp
  /\ nextId < limit
  /\ nextId' = nextId + 1
  /\ live' = live \cup {nextId + 1}
  /\ lastEv' = Event("connection", nextId + 1)
  /\ lastSave' = "none"
  /\ sent' = << [Emit("init", live') EXCEPT !.arr = tokens] >>
  /\ UNCHANGED <<hubUp, tokens, file, participants, negotiationOwner,
                 negotiationQueue>>

\* io.on("connection"): the socket is registered and sent init
Connect(limit) ==
  /\ hubUp
  /\ nextId < limit
  /\ nextId' = nextId + 1
  /\ live' = live \cup {nextId + 1}
  /\ lastEv' = Event("connection", nextId + 1)
  /\ lastSave' = "none"
  /\ sent' = << [Emit("init", {nextId + 1}) EXCEPT !.arr = tokens] >>
  /\ UNCHANGED <<hubUp, tokens, file, participants, negotiationOwner,
                 negotiationQueue>>

\* the disconnect handler without releaseNegotiation (as in src/server.js)
Disconnect_NoRelease(c) ==
  /\ hubUp
  /\ c \in live
  /\ live' = live \ {c}
  /\ participants' = DeleteParticipant(participants, c)
  /\ sent' = << [Emit("voice-participants", live \ {c})
                   EXCEPT !.roster = DeleteParticipant(participants, c)] >>
  /\ lastEv' = Event("disconnect", c)
  /\ lastSave' = "none"
  /\ UNCHANGED <<hubUp, nextId, tokens, file, negotiationOwner, negotiationQueue>>

\* socket.on("disconnect"): the socket has left io.sockets.sockets already
Disconnect(c) ==
  /\ hubUp
  /\ c \in live
  /\ LET r == releaseNegotiation(negotiationOwner, negotiationQueue, c, live \ {c})
         ps == DeleteParticipant(participants, c)
     IN /\ live' = live \ {c}
        /\ participants' = ps
        /\ negotiationOwner' = r.owner
        /\ negotiationQueue' = r.queue
        /\ sent' = r.emits \o
                   << [Emit("voice-participants", live \ {c}) EXCEPT !.roster = ps] >>
  /\ lastEv' = Event("disconnect", c)
  /\ lastSave' = "none"
  /\ UNCHANGED <<hubUp, nextId, tokens, file>>

\* ------------------------------------------------------------------- voice
\* socket.on("voice-join", ({ nick }) => ...): destructuring a missing payload
\* throws
VoiceJoin(c, present, nick) ==
  /\ hubUp
  /\ c \in live
  /\ LET ev == [Event("voice-join", c) EXCEPT !.present = present, !.text = nick]
     IN IF ~present THEN Throw(ev)
        ELSE LET ps == SetParticipant(participants,
                          Participant(c, IF TruthyStr(nick) THEN nick ELSE "SemNome"))
             IN /\ participants' = ps
                /\ sent' = << [Emit("voice-participants", live) EXCEPT !.roster = ps] >>
                /\ lastEv' = ev
                /\ lastSave' = "none"
                /\ UNCHANGED <<hubUp, nextId, live, tokens, file, negotiationOwner,
                               negotiationQueue>>

\* the voice-leave handler without releaseNegotiation (as in src/server.js)
VoiceLeave_NoRelease(c) ==
  /\ hubUp
  /\ c \in live
  /\ participants' = DeleteParticipant(participants, c)
  /\ sent' = << [Emit("voice-participants", live)
                   EXCEPT !.roster = DeleteParticipant(participants, c)] >>
  /\ lastEv' = Event("voice-leave", c)
  /\ lastSave' = "none"
  /\ UNCHANGED <<hubUp, nextId, live, tokens, file, negotiationOwner, negotiationQueue>>

\* socket.on("voice-leave")
VoiceLeave(c) ==
  /\ hubUp
  /\ c \in live
  /\ LET r == releaseNegotiation(negotiationOwner, negotiationQueue, c, live)
         ps == DeleteParticipant(participants, c)
     IN /\ participants' = ps
        /\ negotiationOwner' = r.owner
        /\ negotiationQueue' = r.queue
        /\ sent' = r.emits \o
                   << [Emit("voice-participants", live) EXCEPT !.roster = ps] >>
  /\ lastEv' = Event("voice-leave", c)
  /\ lastSave' = "none"
  /\ UNCHANGED <<hubUp, nextId, live, tokens, file>>

\* the request handler with the grant sent by io.emit ("inform everyone")
VoiceNegotiateRequest_GrantToAll(c, cbId) ==
  /\ hubUp
  /\ c \in live
  /\ LET res == requestNegotiation(negotiationOwner, negotiationQueue, c)
     IN /\ negotiationOwner' = res.owner
        /\ negotiationQueue' = res.queue
        /\ sent' = << [Emit("voice-negotiate-response", {c})
                         EXCEPT !.flag = res.granted, !.position = res.position,
                                !.text = cbId] >>
                   \o (IF res.granted
                       THEN << [Emit("voice-negotiate-grant", live) EXCEPT !.who = c] >>
                       ELSE <<>>)
  /\ lastEv' = [Event("voice-negotiate-request", c) EXCEPT !.text = cbId]
  /\ lastSave' = "none"
  /\ UNCHANGED <<hubUp, nextId, live, tokens, file, participants>>

\* socket.on("voice-negotiate-request", (cbId) => ...)
VoiceNegotiateRequest(c, cbId) ==
  /\ hubUp
  /\ c \in live
  /\ LET res == requestNegotiation(negotiationOwner, negotiationQueue, c)
     IN /\ negotiationOwner' = res.owner
        /\ negotiationQueue' = res.queue
        /\ sent' = << [Emit("voice-negotiate-response", {c})
                         EXCEPT !.flag = res.granted, !.position = res.position,
                                !.text = cbId] >>
                   \o (IF res.granted
                       THEN << [Emit("voice-negotiate-grant", {c}) EXCEPT !.who = c] >>
                       ELSE <<>>)
  /\ lastEv' = [Event("voice-negotiate-request", c) EXCEPT !.text = cbId]
  /\ lastSave' = "none"
  /\ UNCHANGED <<hubUp, nextId, live, tokens, file, participants>>

\* socket.on("voice-negotiate-release")
VoiceNegotiateRelease(c) ==
  /\ hubUp
  /\ c \in live
  /\ LET r == releaseNegotiation(negotiationOwner, negotiationQueue, c, live)
     IN /\ negotiationOwner' = r.owner
        /\ negotiationQueue' = r.queue
        /\ sent' = r.emits \o
                   << [Emit("voice-negotiate-released", live)
                         EXCEPT !.who = c, !.newOwner = r.owner] >>
  /\ lastEv' = Event("voice-negotiate-release", c)
  /\ lastSave' = "none"
  /\ UNCHANGED <<hubUp, nextId, live, tokens, file, participants>>

\* ------------------------------------------------------------ token store
\* reading t.id of a null array element throws a TypeError
HasNull(arr) == \E i \in DOMAIN arr : arr[i].kind = "null"

\* tokens.find((t) => t.id === token.id): "found", "missing", or "throws" when a
\* null element is reached before a match
FindById(arr, id) ==
  LET hits == {i \in DOMAIN arr : arr[i].kind = "null" \/ arr[i].id = id}
      first == CHOOSE i \in hits : \A j \in hits : i <= j
  IN IF hits = {} THEN "missing"
     ELSE IF arr[first].kind = "null" THEN "throws"
     ELSE "found"

\* the handler has written the snapshot and reaches its emit: the events go out,
\* unless the process is killed between the two statements
EmitAfterSave(msgs, killed) ==
  /\ sent' = IF killed THEN <<>> ELSE msgs
  /\ hubUp' = ~killed

\* the addToken handler undoing the push and staying silent when the write fails
AddTokenRun_RollbackOnFailure(c, token, writeOk, killed) ==
  /\ hubUp
  /\ c \in live
  /\ LET ev == [Event("addToken", c) EXCEPT !.tok = token]
         rejected == token.kind = "null" \/ ~TruthyStr(token.id) \/ ~TruthyStr(token.src)
         found == FindById(tokens, token.id)
     IN IF ~rejected /\ found = "throws" THEN ~killed /\ Throw(ev)
        ELSE IF rejected \/ found = "found"
        THEN /\ ~killed
             /\ lastEv' = ev
             /\ lastSave' = "none"
             /\ sent' = <<>>
             /\ UNCHANGED <<hubUp, nextId, live, tokens, file, participants,
                            negotiationOwner, negotiationQueue>>
        ELSE /\ Len(tokens) < MaxLen
             /\ tokens' = IF writeOk THEN Append(tokens, token) ELSE tokens
             /\ file' = saveTokens(file, tokens', writeOk)
             /\ lastSave' = SaveOutcome(writeOk)
             /\ EmitAfterSave(IF writeOk
                              THEN << [Emit("addToken", live) EXCEPT !.tok = token] >>
                              ELSE <<>>, killed)
             /\ lastEv' = ev
             /\ UNCHANGED <<nextId, live, participants, negotiationOwner,
                            negotiationQueue>>

\* socket.on("addToken", (token) => ...), run to its end or killed before io.emit
AddTokenRun(c, token, writeOk, killed) ==
  /\ hubUp
  /\ c \in live
  /\ LET ev == [Event("addToken", c) EXCEPT !.tok = token]
         rejected == token.kind = "null" \/ ~TruthyStr(token.id) \/ ~TruthyStr(token.src)
         found == FindById(tokens, token.id)
     IN IF ~rejected /\ found = "throws" THEN ~killed /\ Throw(ev)
        ELSE IF rejected \/ found = "found"
        THEN /\ ~killed
             /\ lastEv' = ev
             /\ lastSave' = "none"
             /\ sent' = <<>>
             /\ UNCHANGED <<hubUp, nextId, live, tokens, file, participants,
                            negotiationOwner, negotiationQueue>>
        ELSE /\ Len(tokens) < MaxLen
             /\ tokens' = Append(tokens, token)
             /\ file' = saveTokens(file, tokens', writeOk)
             /\ lastSave' = SaveOutcome(writeOk)
             /\ EmitAfterSave(<< [Emit("addToken", live) EXCEPT !.tok = token] >>, killed)
             /\ lastEv' = ev
             /\ UNCHANGED <<nextId, live, participants, negotiationOwner,
                            negotiationQueue>>

\* socket.on("addToken", (token) => ...)
AddToken(c, token, writeOk) == AddTokenRun(c, token, writeOk, FALSE)

\* the updateToken handler with socket.broadcast.emit (as in src/unnamed/part_000)
UpdateTokenRun_ToOthers(c, token, writeOk, killed) ==
  /\ hubUp
  /\ c \in live
  /\ LET ev == [Event("updateToken", c) EXCEPT !.tok = token]
     IN IF tokens # <<>> /\ (token.kind = "null" \/ HasNull(tokens))
        THEN ~killed /\ Throw(ev)
        ELSE /\ tokens' = [i \in DOMAIN tokens |->
                             IF tokens[i].id = token.id THEN token ELSE tokens[i]]
             /\ file' = saveTokens(file, tokens', writeOk)
             /\ lastSave' = SaveOutcome(writeOk)
             /\ EmitAfterSave(<< [Emit("updateToken", live \ {c}) EXCEPT !.tok = token] >>,
                              killed)
             /\ lastEv' = ev
             /\ UNCHANGED <<nextId, live, participants, negotiationOwner,
                            negotiationQueue>>

\* socket.on("updateToken", (token) => ...): the map callback reads t.id and
\* token.id for every stored element
UpdateTokenRun(c, token, writeOk, killed) ==
  /\ hubUp
  /\ c \in live
  /\ LET ev == [Event("updateToken", c) EXCEPT !.tok = token]
     IN IF tokens # <<>> /\ (token.kind = "null" \/ HasNull(tokens))
        THEN ~killed /\ Throw(ev)
        ELSE /\ tokens' = [i \in DOMAIN tokens |->
                             IF tokens[i].id = token.id THEN token ELSE tokens[i]]
             /\ file' = saveTokens(file, tokens', writeOk)
             /\ lastSave' = SaveOutcome(writeOk)
             /\ EmitAfterSave(<< [Emit("updateToken", live) EXCEPT !.tok = token] >>,
                              killed)
             /\ lastEv' = ev
             /\ UNCHANGED <<nextId, live, participants, negotiationOwner,
                            negotiationQueue>>

UpdateToken(c, token, writeOk) == UpdateTokenRun(c, token, writeOk, FALSE)

\* the reorder handler with io.emit ahead of saveTokens: a kill between the two
\* leaves the event sent and the file as it was
ReorderRun_EmitFirst(c, newTokens, writeOk, killed) ==
  /\ hubUp
  /\ c \in live
  /\ tokens' = IF newTokens.isArray THEN newTokens.items ELSE tokens
  /\ file' = IF killed THEN file ELSE saveTokens(file, tokens', writeOk)
  /\ lastSave' = IF killed THEN "none" ELSE SaveOutcome(writeOk)
  /\ sent' = << [Emit("reorder", live) EXCEPT !.arr = tokens'] >>
  /\ hubUp' = ~killed
  /\ lastEv' = [Event("reorder", c) EXCEPT !.arr = newTokens]
  /\ UNCHANGED <<nextId, live, participants, negotiationOwner, negotiationQueue>>

\* socket.on("reorder", (newTokens) => ...)
ReorderRun(c, newTokens, writeOk, killed) ==
  /\ hubUp
  /\ c \in live
  /\ tokens' = IF newTokens.isArray THEN newTokens.items ELSE tokens
  /\ file' = saveTokens(file, tokens', writeOk)
  /\ lastSave' = SaveOutcome(writeOk)
  /\ EmitAfterSave(<< [Emit("reorder", live) EXCEPT !.arr = tokens'] >>, killed)
  /\ lastEv' = [Event("reorder", c) EXCEPT !.arr = newTokens]
  /\ UNCHANGED <<nextId, live, participants, negotiationOwner, negotiationQueue>>

Reorder(c, newTokens, writeOk) == ReorderRun(c, newTokens, writeOk, FALSE)

\* socket.on("deleteToken", (id) => ...): the filter callback reads t.id of every
\* stored element
DeleteTokenRun(c, id, writeOk, killed) ==
  /\ hubUp
  /\ c \in live
  /\ LET ev == [Event("deleteToken", c) EXCEPT !.id = id]
         keep(t) == t.id # id
     IN IF HasNull(tokens) THEN ~killed /\ Throw(ev)
        ELSE /\ tokens' = SelectSeq(tokens, keep)
             /\ file' = saveTokens(file, tokens', writeOk)
             /\ lastSave' = SaveOutcome(writeOk)
             /\ EmitAfterSave(<< [Emit("deleteToken", live) EXCEPT !.id = id] >>, killed)
             /\ lastEv' = ev
             /\ UNCHANGED <<nextId, live, participants, negotiationOwner,
                            negotiationQueue>>

\* the deleteToken handler without saveTokens (as in src/unnamed/part_000)
DeleteToken_NoSave(c, id, writeOk) ==
  /\ hubUp
  /\ c \in live
  /\ LET ev == [Event("deleteToken", c) EXCEPT !.id = id]
         keep(t) == t.id # id
     IN IF HasNull(tokens) THEN Throw(ev)
        ELSE /\ tokens' = SelectSeq(tokens, keep)
             /\ lastSave' = "none"
             /\ sent' = << [Emit("deleteToken", live) EXCEPT !.id = id] >>
             /\ lastEv' = ev
             /\ UNCHANGED <<hubUp, nextId, live, file, participants, negotiationOwner,
                            negotiationQueue>>

DeleteToken(c, id, writeOk) == DeleteTokenRun(c, id, writeOk, FALSE)

\* ------------------------------------------------------------------- music
\* what a music handler passes on: the stop-all-music handler takes no argument
\* and emits none
MusicPayload(name, url) == IF name = "stop-all-music" THEN Undefined ELSE url

\* play-music, stop-music, stop-all-music: socket.broadcast.emit of the payload
MusicRelay(c, name, url) ==
  /\ hubUp
  /\ c \in live
  /\ sent' = << [Emit(name, live \ {c}) EXCEPT !.text = MusicPayload(name, url)] >>
  /\ lastEv' = [Event(name, c) EXCEPT !.text = url]
  /\ lastSave' = "none"
  /\ UNCHANGED <<hubUp, nextId, live, tokens, file, participants, negotiationOwner,
                 negotiationQueue>>

\* socket.on("volume-music", (data) => ...): the log line reads data.url, which
\* throws when there is no payload
VolumeMusic(c, present, data) ==
  /\ hubUp
  /\ c \in live
  /\ LET ev == [Event("volume-music", c) EXCEPT !.present = present, !.text = data]
     IN IF ~present THEN Throw(ev)
        ELSE /\ sent' = << [Emit("volume-music", live \ {c}) EXCEPT !.text = data] >>
             /\ lastEv' = ev
             /\ lastSave' = "none"
             /\ UNCHANGED <<hubUp, nextId, live, tokens, file, participants,
                            negotiationOwner, negotiationQueue>>

\* --------------------------------------------------- voice signal, speaking
\* socket.on("voice-signal", ({ target, data }) => ...)
VoiceSignal(c, present, target, data) ==
  /\ hubUp
  /\ c \in live
  /\ LET ev == [Event("voice-signal", c)
                  EXCEPT !.present = present, !.target = target, !.text = data]
     IN IF ~present THEN Throw(ev)
        ELSE /\ sent' = IF TruthyId(target) /\ target \in live
                        THEN << [Emit("voice-signal", {target})
                                   EXCEPT !.who = c, !.text = data] >>
                        ELSE <<>>
             /\ lastEv' = ev
             /\ lastSave' = "none"
             /\ UNCHANGED <<hubUp, nextId, live, tokens, file, participants,
                            negotiationOwner, negotiationQueue>>

\* socket.on("voice-speaking", ({ id, speaking }) => ...); speaking is the
\* payload's value after !!
VoiceSpeaking(c, present, id, speaking) ==
  /\ hubUp
  /\ c \in live
  /\ LET ev == [Event("voice-speaking", c)
                  EXCEPT !.present = present, !.target = id, !.flag = speaking]
     IN IF ~present THEN Throw(ev)
        ELSE IF ~TruthyId(id) \/ ~HasParticipant(participants, id)
        THEN /\ sent' = <<>>
             /\ lastEv' = ev
             /\ lastSave' = "none"
             /\ UNCHANGED <<hubUp, nextId, live, tokens, file, participants,
                            negotiationOwner, negotiationQueue>>
        ELSE /\ participants' = [i \in DOMAIN participants |->
                                   IF participants[i].id = id
                                   THEN [participants[i] EXCEPT !.speaking = speaking]
                                   ELSE participants[i]]
             /\ sent' = << [Emit("voice-speaking", live)
                              EXCEPT !.who = id, !.flag = speaking] >>
             /\ lastEv' = ev
             /\ lastSave' = "none"
             /\ UNCHANGED <<hubUp, nextId, live, tokens, file, negotiationOwner,
                            negotiationQueue>>

\* ------------------------------------ the grid hub of src/unnamed/part_000
\* this revision keeps the store in memory only and validates nothing
\* socket.on("disconnect"): only logged
GridDisconnect(c) ==
  /\ hubUp
  /\ c \in live
  /\ live' = live \ {c}
  /\ sent' = <<>>
  /\ lastEv' = Event("disconnect", c)
  /\ lastSave' = "none"
  /\ UNCHANGED <<hubUp, nextId, tokens, file, participants, negotiationOwner,
                 negotiationQueue>>

\* socket.on("addToken", (token) => { tokens.push(token); io.emit(...) })
GridAddToken(c, token) ==
  /\ hubUp
  /\ c \in live
  /\ Len(tokens) < MaxLen
  /\ tokens' = Append(tokens, token)
  /\ sent' = << [Emit("addToken", live) EXCEPT !.tok = token] >>
  /\ lastEv' = [Event("addToken", c) EXCEPT !.tok = token]
  /\ lastSave' = "none"
  /\ UNCHANGED <<hubUp, nextId, live, file, participants, negotiationOwner,
                 negotiationQueue>>

\* socket.on("updateToken"): tokens.map reads t.id and updatedToken.id of every
\* element, then socket.broadcast.emit
GridUpdateToken(c, updatedToken) ==
  /\ hubUp
  /\ c \in live
  /\ LET ev == [Event("updateToken", c) EXCEPT !.tok = updatedToken]
         throws == HasNull(tokens) \/ (tokens # <<>> /\ updatedToken.kind = "null")
     IN IF throws THEN Throw(ev)
        ELSE /\ tokens' = [i \in DOMAIN tokens |->
                             IF tokens[i].id = updatedToken.id THEN updatedToken
                             ELSE tokens[i]]
             /\ sent' = << [Emit("updateToken", live \ {c}) EXCEPT !.tok = updatedToken] >>
             /\ lastEv' = ev
             /\ lastSave' = "none"
             /\ UNCHANGED <<hubUp, nextId, live, file, participants, negotiationOwner,
                            negotiationQueue>>

\* socket.on("deleteToken"): tokens.filter((t) => t.id !== id), then io.emit
GridDeleteToken(c, id) ==
  /\ hubUp
  /\ c \in live
  /\ LET ev == [Event("deleteToken", c) EXCEPT !.id = id]
         keep(t) == t.id # id
     IN IF HasNull(tokens) THEN Throw(ev)
        ELSE /\ tokens' = SelectSeq(tokens, keep)
             /\ sent' = << [Emit("deleteToken", live) EXCEPT !.id = id] >>
             /\ lastEv' = ev
             /\ lastSave' = "none"
             /\ UNCHANGED <<hubUp, nextId, live, file, participants, negotiationOwner,
                            negotiationQueue>>

\* socket.on("reorder", (newOrder) => { tokens = newOrder; io.emit(...) }), for
\* a payload that is an array
GridReorder(c, newOrder) ==
  /\ hubUp
  /\ c \in live
  /\ newOrder.isArray
  /\ tokens' = newOrder.items
  /\ sent' = << [Emit("reorder", live) EXCEPT !.arr = newOrder.items] >>
  /\ lastEv' = [Event("reorder", c) EXCEPT !.arr = newOrder]
  /\ lastSave' = "none"
  /\ UNCHANGED <<hubUp, nextId, live, file, participants, negotiationOwner,
                 negotiationQueue>>

\* ------------------------------------------- the voice hub of src/server.js
\* this revision has no negotiation lock and guards voice-signal
\* the signaling data of a voice-signal payload, by shape: no data property,
\* an empty string, {sdp: {type, sdp}}, {type, sdp: "v=0..."}, {candidate}
SignalData == {Undefined, "", "sdp-wrapped", "sdp-flat", "candidate"}

\* JS null as a payload value
JsNull == "null"

\* payload.data ? ... : null
SignalTruthy(d) == d # Undefined /\ d # ""

\* JSON.parse(JSON.stringify(data)): a value that arrived as JSON is copied as is
JsonClone(d) == d

\* data?.sdp is truthy, and data.sdp.type is no string: toUpperCase throws
SdpLogThrows(d) == d = "sdp-flat"

\* socket.on("voice-signal", (payload) => { try { ... } catch { log } })
ServerVoiceSignal(c, present, target, data) ==
  /\ hubUp
  /\ c \in live
  /\ LET copy == IF SignalTruthy(data) THEN JsonClone(data) ELSE JsNull
         dropped == ~present \/ ~TruthyId(target) \/ SdpLogThrows(copy)
                    \/ target \notin live
     IN sent' = IF dropped THEN <<>>
                ELSE << [Emit("voice-signal", {target}) EXCEPT !.who = c, !.text = copy] >>
  /\ lastEv' = [Event("voice-signal", c)
                  EXCEPT !.present = present, !.target = target, !.text = data]
  /\ lastSave' = "none"
  /\ UNCHANGED <<hubUp, nextId, live, tokens, file, participants, negotiationOwner,
                 negotiationQueue>>

\* socket.on("voice-leave"): no lock to release
ServerVoiceLeave(c) ==
  /\ hubUp
  /\ c \in live
  /\ participants' = DeleteParticipant(participants, c)
  /\ sent' = << [Emit("voice-participants", live)
                   EXCEPT !.roster = DeleteParticipant(participants, c)] >>
  /\ lastEv' = Event("voice-leave", c)
  /\ lastSave' = "none"
  /\ UNCHANGED <<hubUp, nextId, live, tokens, file, negotiationOwner, negotiationQueue>>

\* socket.on("disconnect")
ServerDisconnect(c) ==
  /\ hubUp
  /\ c \in live
  /\ live' = live \ {c}
  /\ participants' = DeleteParticipant(participants, c)
  /\ sent' = << [Emit("voice-participants", live \ {c})
                   EXCEPT !.roster = DeleteParticipant(participants, c)] >>
  /\ lastEv' = Event("disconnect", c)
  /\ lastSave' = "none"
  /\ UNCHANGED <<hubUp, nextId, tokens, file, negotiationOwner, negotiationQueue>>

\* ------------------------- the earlier hub revision of src/unnamed/part_001
\* its token, roster and disconnect handlers read as those of src/server.js; its
\* music handlers use io.emit
EarlyMusic(c, name, url) ==
  /\ hubUp
  /\ c \in live
  /\ sent' = << [Emit(name, live) EXCEPT !.text = MusicPayload(name, url)] >>
  /\ lastEv' = [Event(name, c) EXCEPT !.text = url]
  /\ lastSave' = "none"
  /\ UNCHANGED <<hubUp, nextId, live, tokens, file, participants, negotiationOwner,
                 negotiationQueue>>

\* ------------------------------------------------------------- the viewer
\* what a viewer holding store does with one event it is sent: init and reorder
\* replace all, addToken appends, updateToken replaces by id, deleteToken
\* removes by id
ViewerApply(store, m) ==
  IF m.ev \in {"init", "reorder"} THEN m.arr
  ELSE IF m.ev = "addToken" THEN Append(store, m.tok)
  ELSE IF m.ev = "updateToken"
  THEN [i \in DOMAIN store |-> IF store[i].id = m.tok.id THEN m.tok ELSE store[i]]
  ELSE IF m.ev = "deleteToken"
  THEN LET keep(t) == t.id # m.id IN SelectSeq(store, keep)
  ELSE store

\* the events of msgs addressed to v, applied to store in the order sent
RECURSIVE ViewerApplyAll(_, _, _)
ViewerApplyAll(store, msgs, v) ==
  IF msgs = <<>> THEN store
  ELSE ViewerApplyAll(IF v \in Head(msgs).to THEN ViewerApply(store, Head(msgs))
                      ELSE store,
                      Tail(msgs), v)

\* ------------------------------------------------------- specifications
\* the negotiation lock: connections and the events that reach the lock
NextLock ==
  \/ Connect(MaxConns)
  \/ \E c \in ConnIds : Disconnect(c)
  \/ \E c \in ConnIds : VoiceLeave(c)
  \/ \E c \in ConnIds : VoiceNegotiateRequest(c, "cb")
  \/ \E c \in ConnIds : VoiceNegotiateRelease(c)

SpecLock == Init /\ [][NextLock]_vars

\* the lock with the owner's side of the protocol: whoever owns the lock
\* eventually sends voice-negotiate-release or voice-leave, or disconnects
OwnerGivesUp ==
  \E c \in ConnIds :
    /\ c = negotiationOwner
    /\ (VoiceNegotiateRelease(c) \/ VoiceLeave(c) \/ Disconnect(c))

SpecLockFair == Init /\ [][NextLock]_vars /\ WF_vars(OwnerGivesUp)

\* the token store: connections and the token events with every payload; the
\* file is only written, never read back, so its writes are taken to succeed
NextTokens ==
  \/ Connect(MaxTokConns)
  \/ \E c \in ConnIds : Disconnect(c)
  \/ \E c \in ConnIds, t \in TokenPayloads : AddToken(c, t, TRUE)
  \/ \E c \in ConnIds, t \in TokenPayloads : UpdateToken(c, t, TRUE)
  \/ \E c \in ConnIds, a \in ReorderPayloads : Reorder(c, a, TRUE)
  \/ \E c \in ConnIds, id \in TokenIds : DeleteToken(c, id, TRUE)

SpecTokens == Init /\ [][NextTokens]_vars

\* the whole hub: every handler, with the payloads that tell its branches apart
HubIds == 1..(MaxHubConns + 1)
\* the ids a payload names: the first socket, and one that never connects
HubTargets == {1, MaxHubConns + 1}
HubTokens == {NullToken, Tok("t1", "a")}
HubArrays == {NotAnArray, ArrayOf(<<>>)}
MusicEvents == {"play-music", "stop-music", "stop-all-music"}

HubInit == InitFrom({NoFile})

Next ==
  \/ Connect(MaxHubConns)
  \/ \E c \in HubIds : Disconnect(c)
  \/ \E c \in HubIds, t \in HubTokens : AddToken(c, t, TRUE)
  \/ \E c \in HubIds, t \in HubTokens : UpdateToken(c, t, TRUE)
  \/ \E c \in HubIds, a \in HubArrays : Reorder(c, a, TRUE)
  \/ \E c \in HubIds : DeleteToken(c, "t1", TRUE)
  \/ \E c \in HubIds, name \in MusicEvents : MusicRelay(c, name, "url")
  \/ \E c \in HubIds, present \in BOOLEAN : VolumeMusic(c, present, "url")
  \/ \E c \in HubIds, present \in BOOLEAN : VoiceJoin(c, present, Undefined)
  \/ \E c \in HubIds, present \in BOOLEAN, target \in HubTargets :
       VoiceSignal(c, present, target, "sdp")
  \/ \E c \in HubIds, present \in BOOLEAN, id \in HubTargets :
       VoiceSpeaking(c, present, id, TRUE)
  \/ \E c \in HubIds : VoiceLeave(c)
  \/ \E c \in HubIds : VoiceNegotiateRequest(c, "cb")
  \/ \E c \in HubIds : VoiceNegotiateRelease(c)

Spec == HubInit /\ [][Next]_vars

\* persistence: the token events with writes that succeed or fail and with the
\* process killed between saveTokens and io.emit, from every start file
PersistIds == 1..(MaxPersistConns + 1)
PersistTokens == {NullToken, Tok("t1", "a"), Tok("t1", "b"), Tok("t2", "a")}
PersistArrays ==
  {NotAnArray, ArrayOf(<<>>), ArrayOf(<<Tok("t2", "a"), Tok("t1", "a")>>)}

NextPersist ==
  \/ Connect(MaxPersistConns)
  \/ \E c \in PersistIds : Disconnect(c)
  \/ \E c \in PersistIds, t \in PersistTokens, ok \in BOOLEAN, killed \in BOOLEAN :
       AddTokenRun(c, t, ok, killed)
  \/ \E c \in PersistIds, t \in PersistTokens, ok \in BOOLEAN, killed \in BOOLEAN :
       UpdateTokenRun(c, t, ok, killed)
  \/ \E c \in PersistIds, a \in PersistArrays, ok \in BOOLEAN, killed \in BOOLEAN :
       ReorderRun(c, a, ok, killed)
  \/ \E c \in PersistIds, id \in TokenIds, ok \in BOOLEAN, killed \in BOOLEAN :
       DeleteTokenRun(c, id, ok, killed)

SpecPersist == Init /\ [][NextPersist]_vars

\* the grid hub of src/unnamed/part_000: no file, no voice
NextGrid ==
  \/ Connect(MaxPersistConns)
  \/ \E c \in PersistIds : GridDisconnect(c)
  \/ \E c \in PersistIds, t \in PersistTokens : GridAddToken(c, t)
  \/ \E c \in PersistIds, t \in PersistTokens : GridUpdateToken(c, t)
  \/ \E c \in PersistIds, id \in TokenIds : GridDeleteToken(c, id)
  \/ \E c \in PersistIds, a \in PersistArrays : GridReorder(c, a)

SpecGrid == HubInit /\ [][NextGrid]_vars


\* the hub of src/server.js: tokens, roster and the guarded voice-signal
NextServer ==
  \/ Connect(MaxHubConns)
  \/ \E c \in HubIds : ServerDisconnect(c)
  \/ \E c \in HubIds, t \in HubTokens : AddToken(c, t, TRUE)
  \/ \E c \in HubIds : DeleteToken(c, "t1", TRUE)
  \/ \E c \in HubIds, present \in BOOLEAN : VoiceJoin(c, present, Undefined)
  \/ \E c \in HubIds, present \in BOOLEAN, target \in HubTargets \cup {NULL},
        data \in SignalData : ServerVoiceSignal(c, present, target, data)
  \/ \E c \in HubIds, present \in BOOLEAN, id \in HubTargets :
       VoiceSpeaking(c, present, id, TRUE)
  \/ \E c \in HubIds : ServerVoiceLeave(c)

SpecServer == HubInit /\ [][NextServer]_vars

\* the earlier revision: connections, roster, stored tokens and the music relay
MusicNames == MusicEvents \cup {"volume-music"}

NextEarly ==
  \/ Connect(MaxHubConns)
  \/ \E c \in HubIds : ServerDisconnect(c)
  \/ \E c \in HubIds : ServerVoiceLeave(c)
  \/ \E c \in HubIds, present \in BOOLEAN : VoiceJoin(c, present, Undefined)
  \/ \E c \in HubIds, t \in HubTokens : UpdateToken(c, t, TRUE)
  \/ \E c \in HubIds : DeleteToken(c, "t1", TRUE)
  \/ \E c \in HubIds, name \in MusicNames, url \in {Undefined, "url"} :
       EarlyMusic(c, name, url)

SpecEarly == Init /\ [][NextEarly]_vars

\* ------------------------------------------------------------------ claims
ReleaseEvents == {"voice-negotiate-release", "voice-leave", "disconnect"}

\* b stands before c in queue q
Before(q, b, c) == \E i, j \in DOMAIN q : i < j /\ q[i] = b /\ q[j] = c

\* q without p, the others in their order
Without(q, p) == LET other(x) == x # p IN SelectSeq(q, other)

\* the last handler emitted a voice-negotiate-grant to g alone
GrantSentTo(g) ==
  \E i \in DOMAIN sent :
    sent[i].ev = "voice-negotiate-grant" /\ sent[i].to = {g} /\ sent[i].who = g

\* C1: in every reachable state the owner is not in the wait queue and no id is
\* in the wait queue twice
C1_OwnerNotQueuedNoDuplicates ==
  /\ negotiationOwner # NULL => ~Includes(negotiationQueue, negotiationOwner)
  /\ \A i, j \in DOMAIN negotiationQueue :
       i # j => negotiationQueue[i] # negotiationQueue[j]

\* C1 witness: a socket that is queued already has requested again, behind an
\* owner and ahead of another waiter
C1_Witness ==
  /\ negotiationOwner # NULL
  /\ Len(negotiationQueue) = 2
  /\ lastEv.name = "voice-negotiate-request"
  /\ lastEv.from = negotiationQueue[1]

\* C2: waiters become owner in arrival order.  In every step: a waiter with
\* another ahead of it does not become owner; two waiters that both stay queued
\* keep their order; a waiter ahead of another leaves the queue only by becoming
\* owner or by its own release, voice-leave or disconnect; when the owner changes
\* while somebody waits, the new owner is the head of the queue and the rest
\* moves up; and a queued request reports the requester's 1-based place.
C2_FifoOrder ==
  [][ /\ \A b, c \in ConnIds :
           Before(negotiationQueue, b, c) =>
             /\ negotiationOwner' # c
             /\ (Includes(negotiationQueue', b) /\ Includes(negotiationQueue', c)
                   => Before(negotiationQueue', b, c))
             /\ (~Includes(negotiationQueue', b)
                   => \/ negotiationOwner' = b
                      \/ (lastEv'.from = b /\ lastEv'.name \in ReleaseEvents))
      /\ (negotiationOwner' # negotiationOwner /\ negotiationQueue # <<>>)
           => /\ negotiationOwner' = Head(negotiationQueue)
              /\ negotiationQueue' = Tail(negotiationQueue)
      /\ (lastEv'.name = "voice-negotiate-request" /\ ~sent'[1].flag)
           => /\ sent'[1].position \in DOMAIN negotiationQueue'
              /\ negotiationQueue'[sent'[1].position] = lastEv'.from
    ]_vars

\* C2 witness: the scenario's end: 1, 2, 3 requested in that order, 1 released,
\* 2 owns the lock and the repeated request of 3 reports position 1
C2_Witness ==
  /\ negotiationOwner = 2
  /\ negotiationQueue = <<3>>
  /\ 1 \in live
  /\ lastEv.name = "voice-negotiate-request"
  /\ lastEv.from = 3
  /\ sent[1].ev = "voice-negotiate-response"
  /\ ~sent[1].flag
  /\ sent[1].position = 1

\* C3: requestNegotiation(p): without an owner p becomes owner and is granted;
\* the owner is granted again and nothing changes; anybody else leaves the owner
\* as it is, goes to the tail of the queue unless queued already, and is told
\* not-granted with its 1-based place in the queue
C3_RequestEffect ==
  [][ lastEv'.name = "voice-negotiate-request" =>
        LET p == lastEv'.from
            res == sent'[1]
        IN /\ res.ev = "voice-negotiate-response"
           /\ IF negotiationOwner = NULL
              THEN negotiationOwner' = p /\ res.flag
              ELSE IF negotiationOwner = p
              THEN UNCHANGED lockVars /\ res.flag
              ELSE /\ negotiationOwner' = negotiationOwner
                   /\ negotiationQueue' =
                        IF Includes(negotiationQueue, p) THEN negotiationQueue
                        ELSE Append(negotiationQueue, p)
                   /\ ~res.flag
                   /\ res.position \in DOMAIN negotiationQueue'
                   /\ negotiationQueue'[res.position] = p
    ]_vars

\* C3 witness: a request was queued at position 2
C3_Witness ==
  /\ lastEv.name = "voice-negotiate-request"
  /\ Len(sent) = 1
  /\ ~sent[1].flag
  /\ sent[1].position = 2
  /\ negotiationQueue[2] = lastEv.from

\* C4: releaseNegotiation(p), called by voice-negotiate-release, voice-leave and
\* disconnect: the owner's release clears ownership, and the head of the queue,
\* if any, leaves the queue and becomes owner, the rest keeping its order; a
\* waiter's release removes it and leaves the owner and the others' order; a
\* release by anybody else changes neither owner nor queue
C4_ReleaseEffect ==
  [][ lastEv'.name \in ReleaseEvents =>
        LET p == lastEv'.from
        IN IF negotiationOwner = p
           THEN IF negotiationQueue = <<>>
                THEN negotiationOwner' = NULL /\ negotiationQueue' = <<>>
                ELSE /\ negotiationOwner' = Head(negotiationQueue)
                     /\ negotiationQueue' = Tail(negotiationQueue)
           ELSE IF Includes(negotiationQueue, p)
           THEN /\ negotiationOwner' = negotiationOwner
                /\ negotiationQueue' = Without(negotiationQueue, p)
           ELSE UNCHANGED lockVars
    ]_vars

\* C4 witness: an owner with two waiters has released: the head was granted and
\* owns the lock, the other waiter is still queued, the releaser still connected
C4_Witness ==
  /\ lastEv.name = "voice-negotiate-release"
  /\ lastEv.from \in live
  /\ GrantSentTo(negotiationOwner)
  /\ Len(negotiationQueue) = 1

\* C5: when the owner disconnects or sends voice-leave while somebody waits, the
\* head of the queue is owner at the end of that very step and has been sent a
\* voice-negotiate-grant
C5_OwnerGoneHeadGranted ==
  [][ ( /\ lastEv'.name \in {"disconnect", "voice-leave"}
        /\ lastEv'.from = negotiationOwner
        /\ negotiationQueue # <<>> )
      => /\ negotiationOwner' = Head(negotiationQueue)
         /\ \E i \in DOMAIN sent' :
              /\ sent'[i].ev = "voice-negotiate-grant"
              /\ sent'[i].to = {Head(negotiationQueue)}
              /\ sent'[i].who = Head(negotiationQueue)
    ]_vars

\* C5 witness: an owner has disconnected and the head of the queue was granted
C5_Witness ==
  /\ lastEv.name = "disconnect"
  /\ negotiationOwner # NULL
  /\ GrantSentTo(negotiationOwner)

\* C6: the owner and every waiter is a connected socket, and no socket whose
\* disconnect has been handled is owner or waiter
C6_LockHoldersLive ==
  /\ negotiationOwner # NULL => negotiationOwner \in live
  /\ \A i \in DOMAIN negotiationQueue : negotiationQueue[i] \in live
  /\ \A c \in (1..nextId) \ live :
       negotiationOwner # c /\ ~Includes(negotiationQueue, c)

\* C6 witness: an owner has disconnected with two waiters behind it
C6_Witness ==
  /\ lastEv.name = "disconnect"
  /\ lastEv.from \notin live
  /\ GrantSentTo(negotiationOwner)
  /\ negotiationQueue # <<>>

\* C7: a held lock changes owner only in a step in which the owner itself sends
\* voice-negotiate-release or voice-leave or disconnects
C7_OwnerChangesOnlyByOwner ==
  [][ (negotiationOwner # NULL /\ negotiationOwner' # negotiationOwner)
      => /\ lastEv'.from = negotiationOwner
         /\ lastEv'.name \in ReleaseEvents
    ]_vars

\* C7 witness: another socket has released while socket 1 owns the lock
C7_Witness ==
  /\ negotiationOwner = 1
  /\ lastEv.name = "voice-negotiate-release"
  /\ lastEv.from = 2

\* a token with both id and src
HasIdSrc(t) == t.kind = "object" /\ TruthyStr(t.id) /\ TruthyStr(t.src)

\* C8: no two stored tokens have the same id
C8_UniqueTokenIds ==
  \A i, j \in DOMAIN tokens :
    (i # j /\ tokens[i].kind = "object" /\ tokens[j].kind = "object"
       /\ TruthyStr(tokens[i].id))
    => tokens[i].id # tokens[j].id

\* C9: every stored token has id and src, and so has every token carried by an
\* emitted addToken, updateToken or reorder event
C9_StoredAndSentHaveIdSrc ==
  /\ \A i \in DOMAIN tokens : HasIdSrc(tokens[i])
  /\ \A m \in DOMAIN sent :
       /\ sent[m].ev \in {"addToken", "updateToken"} => HasIdSrc(sent[m].tok)
       /\ sent[m].ev = "reorder" => \A k \in DOMAIN sent[m].arr : HasIdSrc(sent[m].arr[k])

\* C10: an addToken whose id is stored already leaves the store as it is, writes
\* no snapshot and emits nothing; an addToken with id and src and a new id
\* appends the token and leaves the earlier entries as they are
C10_AddTokenIdempotentAppend ==
  [][ lastEv'.name = "addToken" =>
        LET t == lastEv'.tok
        IN IF t.kind = "object" /\ TruthyStr(t.id)
              /\ \E i \in DOMAIN tokens :
                   tokens[i].kind = "object" /\ tokens[i].id = t.id
           THEN tokens' = tokens /\ lastSave' = "none" /\ sent' = <<>>
           ELSE HasIdSrc(t) => tokens' = Append(tokens, t)
    ]_vars

TokenEventNames == {"addToken", "updateToken", "reorder", "deleteToken"}

\* the last handler emitted a token mutation event
MutationSent == \E m \in DOMAIN sent : sent[m].ev \in TokenEventNames

\* tokens.json holds the store as it is in memory
SnapshotCurrent == file.state = "ok" /\ loadTokens(file) = tokens

\* C11 as stated: in every state in which a token mutation's event has been sent,
\* the snapshot file holds the mutation
C11_BroadcastImpliesSnapshot == MutationSent => SnapshotCurrent

\* C11 as amended: a handler that has sent a token mutation's event has called
\* saveTokens first; when that write succeeded the snapshot holds the mutation in
\* every state in which the event has been sent; and when the process is killed
\* between a successful write and the broadcast, nothing has been sent and the
\* snapshot holds the mutation
C11_WriteThenBroadcast ==
  /\ MutationSent => lastSave # "none"
  /\ (MutationSent /\ lastSave = "written") => SnapshotCurrent
  /\ (~hubUp /\ lastSave = "written") => (sent = <<>> /\ SnapshotCurrent)

\* C11 witness: the process was killed in addToken between the write and the
\* broadcast, with the appended token in the file
C11_Witness ==
  /\ ~hubUp
  /\ lastEv.name = "addToken"
  /\ lastSave = "written"
  /\ sent = <<>>
  /\ tokens # <<>>
  /\ tokens[Len(tokens)] = lastEv.tok
  /\ loadTokens(file) = tokens

\* C12: with the writes succeeding, loadTokens of the snapshot file is the store
\* in memory in every state, and after a mutation the file is the text of the
\* store as that mutation left it
C12_SnapshotRoundTrip ==
  /\ loadTokens(file) = tokens
  /\ lastSave = "written" => (file.state = "ok" /\ file.text = JsonStringify(tokens))

\* C12 witness: after a reorder and a deleteToken the file holds what is left, a
\* token without id
C12_Witness ==
  /\ lastEv.name = "deleteToken"
  /\ lastSave = "written"
  /\ Len(tokens) = 1
  /\ tokens[1].id = Undefined
  /\ loadTokens(file) = tokens

\* C13: every token mutation event a handler emits goes to every connection
\* live at that moment, the sender included
C13_MutationReachesAllLive ==
  \A m \in DOMAIN sent :
    sent[m].ev \in TokenEventNames =>
      (sent[m].to = live /\ lastEv.from \in sent[m].to)

\* C14: the step that registers a connection sends exactly one event, an init
\* to the new connection alone, carrying the store as it is at that step
C14_InitOnConnect ==
  [][ nextId' # nextId =>
        /\ live' \ live = {nextId'}
        /\ tokens' = tokens
        /\ sent' = << [Emit("init", {nextId'}) EXCEPT !.arr = tokens] >> ]_vars

\* C14 witness: a second connection has been sent the store that the first
\* one's mutations left
C14_Witness ==
  /\ lastEv.name = "connection"
  /\ Cardinality(live) = 2
  /\ Len(tokens) = 2
  /\ Len(sent) = 1
  /\ sent[1].ev = "init"
  /\ sent[1].to = {lastEv.from}
  /\ sent[1].arr = tokens

\* the connections the roster names
RosterIds == {participants[i].id : i \in DOMAIN participants}

RosterEvents == {"voice-join", "voice-leave", "disconnect"}

\* C15: a handled voice-join adds its connection to the roster, a voice-leave
\* or disconnect removes it, nothing else changes who is in the roster; the
\* roster names each connection once and only live ones; and each of the three
\* events sends one voice-participants, to all live connections, carrying
\* exactly the roster
C15_RosterConsistency ==
  [][ /\ RosterIds' =
           IF lastEv'.name = "voice-join" /\ hubUp' THEN RosterIds \cup {lastEv'.from}
           ELSE IF lastEv'.name \in {"voice-leave", "disconnect"}
           THEN RosterIds \ {lastEv'.from}
           ELSE RosterIds
      /\ Cardinality(RosterIds') = Len(participants')
      /\ RosterIds' \subseteq live'
      /\ \A m \in DOMAIN sent' :
           sent'[m].ev = "voice-participants" =>
             (sent'[m].to = live' /\ sent'[m].roster = participants')
      /\ (lastEv'.name \in RosterEvents /\ hubUp') =>
           Cardinality({m \in DOMAIN sent' : sent'[m].ev = "voice-participants"}) = 1
    ]_vars

\* C15 witness: the first of two participants has joined again and the roster
\* sent still has two entries
C15_Witness ==
  /\ lastEv.name = "voice-join"
  /\ Len(participants) = 2
  /\ participants[1].id = lastEv.from
  /\ Len(sent) = 1
  /\ sent[1].ev = "voice-participants"
  /\ sent[1].roster = participants
  /\ sent[1].to = live

\* the indices of the events of one name among those the last handler emitted
SentNamed(ev) == {m \in DOMAIN sent : sent[m].ev = ev}

C17_ReleasedNotice ==
  [][ lastEv'.name = "voice-negotiate-release" =>
        LET p == lastEv'.from
            promoted == negotiationOwner = p /\ negotiationQueue # <<>>
            notices == {m \in DOMAIN sent' : sent'[m].ev = "voice-negotiate-released"}
            grants == {m \in DOMAIN sent' : sent'[m].ev = "voice-negotiate-grant"}
        IN /\ Cardinality(notices) = 1
           /\ \A m \in notices :
                /\ sent'[m].to = live'
                /\ sent'[m].who = p
                /\ sent'[m].newOwner = IF promoted THEN Head(negotiationQueue) ELSE NULL
           /\ Cardinality(grants) = IF promoted THEN 1 ELSE 0
           /\ \A m \in grants : sent'[m].to = {Head(negotiationQueue)}
    ]_vars

\* an event whose payload is absent or lacks a required field
Malformed(e) ==
  \/ e.name \in {"addToken", "updateToken"} /\ ~HasIdSrc(e.tok)
  \/ e.name \in {"voice-join", "voice-speaking", "voice-signal"} /\ ~e.present

\* C18: handling a malformed event leaves store, snapshot, roster and lock as
\* they were, emits nothing, and leaves the hub running
C18_MalformedDropped ==
  [][ Malformed(lastEv') =>
        /\ UNCHANGED <<tokens, file, participants, negotiationOwner, negotiationQueue>>
        /\ sent' = <<>>
        /\ hubUp'
    ]_vars

\* C19: a token handler whose snapshot write failed and that ran to its end has
\* left the file as it was (no second write), has applied its mutation to the
\* store in memory, and has emitted its own event, to all live connections, and
\* nothing else
C19_WriteFailureSwallowed ==
  [][ (lastSave' = "failed" /\ hubUp') =>
        LET e == lastEv'
        IN /\ file' = file
           /\ Len(sent') = 1
           /\ sent'[1].ev = e.name
           /\ sent'[1].to = live'
           /\ e.name \in TokenEventNames
           /\ e.name = "addToken" =>
                (tokens' = Append(tokens, e.tok) /\ sent'[1].tok = e.tok)
           /\ e.name = "updateToken" =>
                /\ Len(tokens') = Len(tokens)
                /\ \A i \in DOMAIN tokens :
                     tokens'[i] = IF tokens[i].id = e.tok.id THEN e.tok ELSE tokens[i]
                /\ sent'[1].tok = e.tok
           /\ e.name = "reorder" =>
                /\ tokens' = IF e.arr.isArray THEN e.arr.items ELSE tokens
                /\ sent'[1].arr = tokens'
           /\ e.name = "deleteToken" =>
                /\ LET keep(t) == t.id # e.id IN tokens' = SelectSeq(tokens, keep)
                /\ sent'[1].id = e.id
    ]_vars

\* C19 witness: an addToken whose write failed was broadcast, the store holds
\* the token and the file does not
C19_Witness ==
  /\ hubUp
  /\ lastSave = "failed"
  /\ lastEv.name = "addToken"
  /\ Len(sent) = 1
  /\ sent[1].ev = "addToken"
  /\ sent[1].to = live
  /\ tokens # <<>>
  /\ tokens[Len(tokens)] = lastEv.tok
  /\ loadTokens(file) # tokens

\* C20: handling a voice-signal from s whose payload names target t leaves
\* store, snapshot, roster and lock as they were and emits, when t is live, one
\* voice-signal to t alone carrying from = s and the payload's data as it came,
\* and nothing when t is not live
C20_SignalToTargetOnly ==
  [][ (lastEv'.name = "voice-signal" /\ lastEv'.present /\ lastEv'.target # NULL) =>
        /\ UNCHANGED <<tokens, file, participants, negotiationOwner, negotiationQueue>>
        /\ sent' = IF lastEv'.target \in live
                   THEN << [Emit("voice-signal", {lastEv'.target})
                              EXCEPT !.who = lastEv'.from, !.text = lastEv'.text] >>
                   ELSE <<>>
    ]_vars

\* C21: handling play-music, stop-music, stop-all-music or volume-music leaves
\* store, snapshot, roster and lock as they were and emits that one event, with
\* the payload as it came, to every live connection but the sender
C21_MusicRelayedToOthers ==
  [][ lastEv'.name \in MusicNames =>
        /\ UNCHANGED <<tokens, file, participants, negotiationOwner, negotiationQueue>>
        /\ hubUp'
        /\ sent' = << [Emit(lastEv'.name, live \ {lastEv'.from})
                         EXCEPT !.text = lastEv'.text] >>
    ]_vars

\* the 1-based place of c in queue q
Pos(q, c) == IndexOf(q, c) + 1

\* a step in which a held lock passes on or is freed
HandOff == negotiationOwner # NULL /\ negotiationOwner' # negotiationOwner

\* c has just released, left voice or disconnected
Withdrawn(c) == lastEv.from = c /\ lastEv.name \in ReleaseEvents

\* a queued participant that does not withdraw eventually owns the lock
QueuedLeadsToOwner ==
  \A c \in ConnIds :
    Includes(negotiationQueue, c) ~> (negotiationOwner = c \/ Withdrawn(c))

\* a waiter that becomes owner is sent a voice-negotiate-grant in that step
WaiterGrantedOnPromotion ==
  [][ \A c \in ConnIds :
        (Includes(negotiationQueue, c) /\ negotiationOwner' = c) =>
          \E i \in DOMAIN sent' :
            /\ sent'[i].ev = "voice-negotiate-grant"
            /\ sent'[i].to = {c}
            /\ sent'[i].who = c ]_vars

\* C22 as stated: under the owners' fairness every waiter that does not
\* withdraw eventually owns the lock and is sent a grant, and its place in the
\* queue drops by one in each hand-off and in no other step, so that it owns the
\* lock after exactly as many hand-offs as its place said
C22_OwnerAfterExactlyK ==
  /\ QueuedLeadsToOwner
  /\ WaiterGrantedOnPromotion
  /\ [][ \A c \in ConnIds :
           (Includes(negotiationQueue, c) /\ Includes(negotiationQueue', c)) =>
             Pos(negotiationQueue', c) =
               IF HandOff THEN Pos(negotiationQueue, c) - 1
               ELSE Pos(negotiationQueue, c) ]_vars

\* C22 as amended: under the owners' fairness every waiter that does not
\* withdraw eventually owns the lock and is sent a grant; its place drops by
\* exactly one in each hand-off, never grows, and otherwise drops only when a
\* waiter ahead of it releases, leaves voice or disconnects, so that it owns the
\* lock after at most as many hand-offs as its place said
C22_OwnerAfterAtMostK ==
  /\ QueuedLeadsToOwner
  /\ WaiterGrantedOnPromotion
  /\ [][ \A c \in ConnIds :
           (Includes(negotiationQueue, c) /\ Includes(negotiationQueue', c)) =>
             IF HandOff
             THEN Pos(negotiationQueue', c) = Pos(negotiationQueue, c) - 1
             ELSE \/ Pos(negotiationQueue', c) = Pos(negotiationQueue, c)
                  \/ /\ Pos(negotiationQueue', c) = Pos(negotiationQueue, c) - 1
                     /\ lastEv'.name \in ReleaseEvents
                     /\ Before(negotiationQueue, lastEv'.from, c) ]_vars

\* C22 witness: the owner released with two waiters queued; the first was
\* granted the lock and the second moved up to the head
C22_Witness ==
  /\ lastEv.name = "voice-negotiate-release"
  /\ lastEv.from = 1
  /\ negotiationOwner = 2
  /\ GrantSentTo(2)
  /\ negotiationQueue = <<3>>

\* C23: in every step of a running hub, a viewer that held the store before the
\* step (or has just connected) and applies the events the step sends it, in
\* order, holds the store as the step leaves it; so a viewer that starts from
\* its init and has been delivered everything sent to it holds the hub's store
C23_ReplicaConverges ==
  [][ hubUp' =>
        \A v \in live' :
          ViewerApplyAll(IF v \in live THEN tokens ELSE <<>>, sent', v) = tokens' ]_vars

\* C23 witness: with two viewers connected, the first one's updateToken replaced
\* a stored token and was sent to both
C23_Witness ==
  /\ hubUp
  /\ Cardinality(live) = 2
  /\ lastEv.name = "updateToken"
  /\ lastEv.from = 1
  /\ Len(sent) = 1
  /\ sent[1].to = live
  /\ tokens # <<>>
  /\ tokens[1] = lastEv.tok
  /\ lastEv.tok.src = "b"

\* C24: whenever the lock has no owner, the wait queue is empty
C24_NoOwnerNoWaiters == negotiationOwner = NULL => negotiationQueue = <<>>

\* C24 witness: the lock is idle, with three connections live, after the third
\* sent voice-leave
C24_Witness ==
  /\ negotiationOwner = NULL
  /\ negotiationQueue = <<>>
  /\ lastEv.name = "voice-leave"
  /\ lastEv.from = 3
  /\ live = {1, 2, 3}

\* C25: handling updateToken with a token object writes the snapshot and sends
\* updateToken with that token to all connections; the store keeps its length;
\* when the token's id is stored, exactly one entry, one with that id, is
\* replaced by the token and the others stay as they are; when it is not, the
\* store stays as it is
C25_UpdateReplacesInPlace ==
  [][ (lastEv'.name = "updateToken" /\ lastEv'.tok.kind = "object") =>
        LET t == lastEv'.tok
            hits == {i \in DOMAIN tokens :
                       tokens[i].kind = "object" /\ tokens[i].id = t.id}
        IN /\ hubUp'
           /\ lastSave' = "written"
           /\ sent' = << [Emit("updateToken", live) EXCEPT !.tok = t] >>
           /\ Len(tokens') = Len(tokens)
           /\ IF hits = {} THEN tokens' = tokens
              ELSE \E i \in hits : tokens' = [tokens EXCEPT ![i] = t]
    ]_vars

\* a reorder payload that is an array of tokens, each with id and src
ValidSequence(a) == a.isArray /\ \A k \in DOMAIN a.items : HasIdSrc(a.items[k])

\* C26: a reorder whose payload is no valid sequence of tokens leaves the store
\* as it is, writes no snapshot and emits nothing; a reorder with a valid
\* sequence makes the store exactly that sequence
C26_InvalidReorderRejected ==
  [][ lastEv'.name = "reorder" =>
        IF ValidSequence(lastEv'.arr)
        THEN tokens' = lastEv'.arr.items
        ELSE /\ tokens' = tokens
             /\ file' = file
             /\ lastSave' = "none"
             /\ sent' = <<>>
    ]_vars

\* c is the owner of the lock or waits for it
InLock(c) == negotiationOwner = c \/ Includes(negotiationQueue, c)

\* the same at the end of the step
InLockNext(c) == negotiationOwner' = c \/ Includes(negotiationQueue', c)

\* handling voice-leave takes its connection out of the roster and out of the
\* lock and sends the roster, as it then is, to all live connections
LeaveRemoves ==
  [][ lastEv'.name = "voice-leave" =>
        /\ lastEv'.from \notin RosterIds'
        /\ ~InLockNext(lastEv'.from)
        /\ \E m \in DOMAIN sent' :
             /\ sent'[m].ev = "voice-participants"
             /\ sent'[m].to = live'
             /\ sent'[m].roster = participants' ]_vars

====
